---- MODULE Spec2Model ----
(***************************************************************************)
(* A model of gitchangelog.py: the commit/tag object model of a git        *)
(* repository (GitCommit, GitRepos), the classification helpers            *)
(* (first_matching, the ignore test, the replace rules), the renderer      *)
(* make_section_string and the assembler changelog().                      *)
(*                                                                         *)
(* Commits are numbered 1..nCommits in commit order: a commit's number is  *)
(* its short hash (sha1), and also its committer/author timestamp, so a    *)
(* parent always has a smaller number than its children.  Strings that the *)
(* code matches with regular expressions (subjects, tag names) are tuples  *)
(* of one-character strings; the document s is the sequence of the pieces  *)
(* that the code concatenates (header, block titles, section headings,     *)
(* entries).  Commit bodies are empty.                                     *)
(***************************************************************************)
EXTENDS Integers, Sequences, FiniteSets, TLC

VARIABLES
    nCommits,       \* number of commits in the repository
    parents,        \* parents[c]: the parent commits of commit c
    subjects,       \* subjects[c]: the subject line of commit c
    tagAt,          \* tagAt[k]: the commit tag TagNames[k] points at, 0 if absent
    config,         \* the keyword arguments of changelog()
    pc,             \* position of the running operation
    query,          \* the resolved <<start, stop>> of the last slice query
    commits,        \* changelog: reversed(repository[:]); range query: its result
    i,              \* changelog: index in commits of the next commit to process
    tags,           \* changelog: the filtered, newest-first tag list
    title,          \* changelog: title of the block being accumulated
    sections,       \* changelog: label -> entries of the block being accumulated
    s               \* changelog: the document built so far

vars == <<nCommits, parents, subjects, tagAt, config, pc, query, commits, i,
          tags, title, sections, s>>

repoVars == <<nCommits, parents, subjects, tagAt, config>>

(***************************************************************************)
(* Bounds and input domains.                                               *)
(***************************************************************************)
MaxCommits == 4

None == "None"

\* A regular expression of the modelled fragment: a literal, optionally
\* anchored at the start of the string with ^.
Lit(chars) == [anchored |-> FALSE, lit |-> chars]
Anchored(chars) == [anchored |-> TRUE, lit |-> chars]

Subjects == { <<"f">>, <<"f", "w">>, <<"x">> }

\* In the order `git tag -l` lists them.
TagNames == << <<"1", ".", "0">>, <<"1", ".", "1">>, <<"v", "1", ".", "0">> >>

Digits == {"0", "1"}

\* The characters of the model for which str.isalnum() is true: the letters
\* and digits of subjects, tag names and the author name, in both cases.
Alnum == {"f", "w", "x", "a", "v", "F", "W", "X", "A", "V", "0", "1"}

AuthorName == <<"a">>

Configs ==
    { \* the usual shape: an ignore rule, a replace rule, a final catch-all
      [ignore_regexps |-> << Lit(<<"w">>) >>,
       replace_regexps |-> << <<Lit(<<"f">>), <<"x">>>> >>,
       section_regexps |-> << <<"Fix", << Anchored(<<"f">>) >> >>, <<None, None>> >>,
       unreleased_version_label |-> <<"unreleased">>],
      \* no catch-all rule
      [ignore_regexps |-> << Anchored(<<"w">>), Lit(<<"w">>) >>,
       replace_regexps |-> << >>,
       section_regexps |-> << <<"Fix", << Lit(<<"f">>) >> >> >>,
       unreleased_version_label |-> <<"unreleased">>],
      \* the label None declared first, overlapping rules, nothing ignored
      [ignore_regexps |-> << >>,
       replace_regexps |-> << <<Lit(<<"f">>), <<"x">>>> >>,
       section_regexps |-> << <<None, << Lit(<<"x">>) >> >>,
                              <<"Fix", << Lit(<<"f">>), Lit(<<"x">>) >> >> >>,
       unreleased_version_label |-> <<"unreleased">>] }

(***************************************************************************)
(* Sequence helpers.                                                       *)
(***************************************************************************)
RECURSIVE Reversed(_)
Reversed(seq) ==
    IF seq = << >> THEN << >>
    ELSE Append(Reversed(Tail(seq)), Head(seq))

Range(seq) == { seq[k] : k \in DOMAIN seq }

(***************************************************************************)
(* Regular expressions: re.search, re.match, re.sub on the fragment.       *)
(***************************************************************************)
MatchesAt(lit, string, k) ==
    /\ k + Len(lit) <= Len(string)
    /\ SubSeq(string, k + 1, k + Len(lit)) = lit

re_match(regexp, string) == MatchesAt(regexp.lit, string, 0)

re_search(regexp, string) ==
    IF regexp.anchored
    THEN MatchesAt(regexp.lit, string, 0)
    ELSE \E k \in 0..Len(string) : MatchesAt(regexp.lit, string, k)

RECURSIVE SubFrom(_, _, _, _)
SubFrom(regexp, replacement, string, k) ==
    IF k >= Len(string) THEN << >>
    ELSE IF MatchesAt(regexp.lit, string, k) /\ (k = 0 \/ ~regexp.anchored)
         THEN replacement \o SubFrom(regexp, replacement, string, k + Len(regexp.lit))
         ELSE <<string[k + 1]>> \o SubFrom(regexp, replacement, string, k + 1)

re_sub(regexp, replacement, string) == SubFrom(regexp, replacement, string, 0)

\* re.match(r"\d+\.\d+(\.\d+)?", identifier): digits, a dot, a digit, from
\* the first character on.
TagFilterMatch(identifier) ==
    \E k \in 1..Len(identifier) :
        /\ \A j \in 1..k : identifier[j] \in Digits
        /\ k + 2 <= Len(identifier)
        /\ identifier[k + 1] = "."
        /\ identifier[k + 2] \in Digits

(***************************************************************************)
(* Text functions.                                                         *)
(***************************************************************************)
Upper(c) ==
    CASE c = "f" -> "F"
      [] c = "w" -> "W"
      [] c = "x" -> "X"
      [] c = "a" -> "A"
      [] c = "v" -> "V"
      [] OTHER -> c

ucfirst(msg) == <<Upper(msg[1])>> \o Tail(msg)

final_dot(msg) ==
    IF Len(msg) = 0 THEN <<"No commit message.">>
    ELSE IF msg[Len(msg)] \in Alnum THEN msg \o <<".">>
    ELSE msg

(***************************************************************************)
(* GitCommit and GitRepos.                                                 *)
(***************************************************************************)
Commits == 1..nCommits

RECURSIVE Ancestors(_)
\* The commits reachable from c, c included.
Ancestors(c) ==
    {c} \cup UNION { Ancestors(p) : p \in parents[c] }

RECURSIVE Descending(_)
\* A set of commits, newest first.
Descending(set) ==
    IF set = {} THEN << >>
    ELSE LET newest == CHOOSE c \in set : \A d \in set : d <= c
         IN  <<newest>> \o Descending(set \ {newest})

\* git rev-list older..newer
rev_list(older, newer) == Descending(Ancestors(newer) \ Ancestors(older))

\* GitCommit('HEAD'): the tip of the current branch, the last commit made.
HEAD == nCommits

\* GitCommit('LAST'): the last line of git log.
LAST == CHOOSE c \in Ancestors(HEAD) : \A d \in Ancestors(HEAD) : c <= d

\* GitCommit.__sub__: self - value
GitCommit_sub(self, value) ==
    IF self = value THEN [raised |-> FALSE, list |-> << >>]
    ELSE LET listed == rev_list(value, self)
         IN  IF listed = << >>
             THEN [raised |-> TRUE, list |-> << >>]
             ELSE [raised |-> FALSE, list |-> Reversed(listed)]

\* GitRepos.__getitem__ on a slice; 0 stands for an omitted endpoint.
GitRepos_getitem(start, stop) ==
    GitCommit_sub(IF stop = 0 THEN HEAD ELSE stop,
                  IF start = 0 THEN LAST ELSE start)

\* The names of the tags present, as git tag -l prints them.
TagList ==
    SelectSeq([k \in DOMAIN TagNames |-> k], LAMBDA k : tagAt[k] # 0)

GitTag(k) ==
    [identifier |-> TagNames[k], sha1 |-> tagAt[k],
     committer_date_timestamp |-> tagAt[k]]

RECURSIVE SortedByTimestamp(_)
\* sorted(..., key=committer_date_timestamp): a stable insertion sort.
SortedByTimestamp(seq) ==
    IF seq = << >> THEN << >>
    ELSE LET rest == SortedByTimestamp(SubSeq(seq, 1, Len(seq) - 1))
             x == seq[Len(seq)]
             before == SelectSeq(rest, LAMBDA y :
                          y.committer_date_timestamp <= x.committer_date_timestamp)
             after == SelectSeq(rest, LAMBDA y :
                          y.committer_date_timestamp > x.committer_date_timestamp)
         IN  before \o <<x>> \o after

\* GitRepos.tags
GitRepos_tags ==
    SortedByTimestamp([k \in DOMAIN TagList |-> GitTag(TagList[k])])

\* GitCommit.date: the day of the author timestamp.
Date(commit) == commit

(***************************************************************************)
(* The changelog code.                                                     *)
(***************************************************************************)
Header == [kind |-> "header", text |-> "Changelog", commit |-> 0]

TitleItem(t) == [kind |-> "title", text |-> t, commit |-> 0]

SectionItem(label) == [kind |-> "section", text |-> label, commit |-> 0]

RECURSIVE RenderSections(_, _, _)
\* The loop of make_section_string over section_label_order.
RenderSections(secs, order, nb_sections) ==
    IF order = << >> THEN << >>
    ELSE LET section == Head(order)
             section_label == IF section = None \/ section = "" THEN "Other"
                              ELSE section
             heading == IF ~(section_label = "Other" /\ nb_sections = 1)
                        THEN <<SectionItem(section_label)>>
                        ELSE << >>
         IN  IF section \notin DOMAIN secs
             THEN RenderSections(secs, Tail(order), nb_sections)
             ELSE heading \o secs[section]
                    \o RenderSections(secs, Tail(order), nb_sections)

\* make_section_string without its test of len(sections).
make_section_string_Unguarded(t, secs, section_label_order) ==
    <<TitleItem(t)>>
      \o RenderSections(secs, section_label_order, Cardinality(DOMAIN secs))

make_section_string(t, secs, section_label_order) ==
    IF Cardinality(DOMAIN secs) # 0
    THEN <<TitleItem(t)>>
           \o RenderSections(secs, section_label_order, Cardinality(DOMAIN secs))
    ELSE << >>

RECURSIVE first_matching_LastWins(_, _)
\* first_matching where a later rule that applies overrides an earlier one.
first_matching_LastWins(section_regexps, string) ==
    IF section_regexps = << >> THEN None
    ELSE LET section == section_regexps[Len(section_regexps)][1]
             regexps == section_regexps[Len(section_regexps)][2]
             front == SubSeq(section_regexps, 1, Len(section_regexps) - 1)
         IN  IF regexps = None THEN section
             ELSE IF \E k \in DOMAIN regexps : re_search(regexps[k], string)
                  THEN section
                  ELSE first_matching_LastWins(front, string)

RECURSIVE first_matching(_, _)
first_matching(section_regexps, string) ==
    IF section_regexps = << >> THEN None
    ELSE LET section == Head(section_regexps)[1]
             regexps == Head(section_regexps)[2]
         IN  IF regexps = None THEN section
             ELSE IF \E k \in DOMAIN regexps : re_search(regexps[k], string)
                  THEN section
                  ELSE first_matching(Tail(section_regexps), string)

\* The ignore test with re.match in the place of re.search.
IsIgnored_Match(ignore_regexps, subject) ==
    \E k \in DOMAIN ignore_regexps : re_match(ignore_regexps[k], subject)

\* any([re.search(pattern, commit.subject) ... for pattern in ignore_regexps])
IsIgnored(ignore_regexps, subject) ==
    \E k \in DOMAIN ignore_regexps : re_search(ignore_regexps[k], subject)

RECURSIVE Replaced(_, _)
\* The loop over replace_regexps.
Replaced(replace_regexps, subject) ==
    IF replace_regexps = << >> THEN subject
    ELSE Replaced(Tail(replace_regexps),
                  re_sub(Head(replace_regexps)[1], Head(replace_regexps)[2], subject))

\* The entry of a commit: "- " + ucfirst(final_dot(subject) + " [author]").
Entry(commit) ==
    [kind |-> "entry",
     text |-> <<"-", " ">> \o
              ucfirst(final_dot(Replaced(config.replace_regexps, subjects[commit]))
                      \o <<" ", "[">> \o AuthorName \o <<"]">>),
     commit |-> commit]

\* tags = [tag for tag in reversed(repository.tags) if re.match(...)]
FilteredTags ==
    SelectSeq(Reversed(GitRepos_tags), LAMBDA tag : TagFilterMatch(tag.identifier))

\* tags_of_commit taken from all the tags of the repository, not only the
\* ones the tag filter keeps.
TagsOfCommit_Unfiltered(tagList, commit) ==
    SelectSeq(Reversed(GitRepos_tags), LAMBDA tag : tag.sha1 = commit)

\* tags_of_commit when the ignore test comes before the boundary test.
TagsOfCommit_IgnoreFirst(tagList, commit) ==
    IF IsIgnored(config.ignore_regexps, subjects[commit]) THEN << >>
    ELSE SelectSeq(tagList, LAMBDA tag : tag.sha1 = commit)

\* tags_of_commit = [tag for tag in tags if tag == commit]
TagsOfCommit(tagList, commit) ==
    SelectSeq(tagList, LAMBDA tag : tag.sha1 = commit)

SectionOrder(section_regexps) ==
    [k \in DOMAIN section_regexps |-> section_regexps[k][1]]

UnreleasedTitle == [identifier |-> config.unreleased_version_label, date |-> 0]

TagTitle(tag, commit) == [identifier |-> tag.identifier, date |-> Date(commit)]

EmptySections == [label \in {} |-> << >>]

\* sections[label].append(entry) on a defaultdict(list)
AppendEntry(secs, label, entry) ==
    [l \in DOMAIN secs \cup {label} |->
        IF l = label
        THEN (IF l \in DOMAIN secs THEN secs[l] ELSE << >>) \o <<entry>>
        ELSE secs[l]]

\* The walk without reversed(): the list as the range query returns it.
CommitsToProcess_Unreversed(listed) == listed

\* What changelog() walks: reversed(repository[:]).
CommitsToProcess(listed) == Reversed(listed)

(***************************************************************************)
(* Initial states: a linear history with tags, and a configuration.        *)
(***************************************************************************)
Idle ==
    /\ pc = "start"
    /\ query = <<0, 0>>
    /\ commits = << >>
    /\ i = 1
    /\ tags = << >>
    /\ title = [identifier |-> << >>, date |-> 0]
    /\ sections = EmptySections
    /\ s = << >>

Init ==
    /\ nCommits \in 1..MaxCommits
    /\ parents = [c \in 1..nCommits |-> IF c = 1 THEN {} ELSE {c - 1}]
    /\ subjects \in [1..nCommits -> Subjects]
    /\ tagAt \in [DOMAIN TagNames -> 0..nCommits]
    /\ config \in Configs
    /\ Idle

(***************************************************************************)
(* changelog()                                                             *)
(***************************************************************************)
\* Lines 442-452: the header, the tag list, the first title, repository[:].
Start ==
    /\ pc = "start"
    /\ LET got == GitRepos_getitem(0, 0)
       IN  /\ query' = <<LAST, HEAD>>
           /\ pc' = IF got.raised THEN "raised" ELSE "loop"
           /\ commits' = CommitsToProcess(got.list)
    /\ s' = <<Header>>
    /\ tags' = FilteredTags
    /\ title' = UnreleasedTitle
    /\ sections' = EmptySections
    /\ i' = 1
    /\ UNCHANGED repoVars

\* One iteration of the loop over the commits.
ProcessCommit ==
    /\ pc = "loop"
    /\ i <= Len(commits)
    /\ LET commit == commits[i]
           tags_of_commit == TagsOfCommit(tags, commit)
           boundary == Len(tags_of_commit) > 0
           s1 == IF boundary
                 THEN s \o make_section_string(title, sections,
                                               SectionOrder(config.section_regexps))
                 ELSE s
           title1 == IF boundary THEN TagTitle(tags_of_commit[1], commit) ELSE title
           sections1 == IF boundary THEN EmptySections ELSE sections
       IN  /\ s' = s1
           /\ title' = title1
           /\ sections' =
                IF IsIgnored(config.ignore_regexps, subjects[commit])
                THEN sections1
                ELSE AppendEntry(sections1,
                                 first_matching(config.section_regexps, subjects[commit]),
                                 Entry(commit))
    /\ i' = i + 1
    /\ UNCHANGED <<repoVars, pc, query, commits, tags>>

\* Lines 495-496: the flush after the loop, and the return.
Finish ==
    /\ pc = "loop"
    /\ i > Len(commits)
    /\ s' = s \o make_section_string(title, sections,
                                     SectionOrder(config.section_regexps))
    /\ pc' = "done"
    /\ UNCHANGED <<repoVars, query, commits, i, tags, title, sections>>

Next == Start \/ ProcessCommit \/ Finish

Spec == Init /\ [][Next]_vars

(***************************************************************************)
(* A slice query repository[start:stop] on an arbitrary commit graph.      *)
(***************************************************************************)
RECURSIVE Graphs(_)
\* The parent functions of the commit graphs of n commits grown from one
\* root commit.
Graphs(n) ==
    IF n = 1 THEN { << {} >> }
    ELSE { Append(g, ps) : g \in Graphs(n - 1),
                           ps \in (SUBSET (1..(n - 1))) \ { {} } }

InitRange ==
    /\ nCommits \in 1..MaxCommits
    /\ parents \in Graphs(nCommits)
    /\ subjects = [c \in 1..nCommits |-> <<"x">>]
    /\ tagAt = [k \in DOMAIN TagNames |-> 0]
    /\ config = [ignore_regexps |-> << >>,
                 replace_regexps |-> << >>,
                 section_regexps |-> << >>,
                 unreleased_version_label |-> <<"unreleased">>]
    /\ Idle

\* repository[start:stop]; 0 stands for an omitted endpoint.
RangeQuery(start, stop) ==
    /\ pc = "start"
    /\ LET got == GitRepos_getitem(start, stop)
       IN  /\ query' = <<IF start = 0 THEN LAST ELSE start,
                         IF stop = 0 THEN HEAD ELSE stop>>
           /\ pc' = IF got.raised THEN "raised" ELSE "returned"
           /\ commits' = got.list
    /\ UNCHANGED <<repoVars, i, tags, title, sections, s>>

NextRange == \E start, stop \in 0..nCommits : RangeQuery(start, stop)

SpecRange == InitRange /\ [][NextRange]_vars

(***************************************************************************)
(* Vocabulary of the properties, stated on the repository and the          *)
(* configuration alone.                                                    *)
(***************************************************************************)
\* Some ignore pattern is found somewhere in the subject of commit c.
Ignored(c) ==
    \E k \in DOMAIN config.ignore_regexps :
        LET p == config.ignore_regexps[k]
        IN  \E at \in 0..Len(subjects[c]) :
                /\ MatchesAt(p.lit, subjects[c], at)
                /\ (p.anchored => at = 0)

\* The identifiers of the release tags on commit c.
QualifyingTagsOn(c) ==
    { TagNames[k] : k \in { j \in DOMAIN TagNames :
                              tagAt[j] = c /\ TagFilterMatch(TagNames[j]) } }

IsBoundary(c) ==
    \E k \in DOMAIN TagNames : tagAt[k] = c /\ TagFilterMatch(TagNames[k])

\* The release commit of c: c itself or the nearest newer commit of the
\* history that carries a release tag; 0 if there is none.
ReleaseCommitOf(c) ==
    IF \A d \in c..nCommits : ~IsBoundary(d) THEN 0
    ELSE CHOOSE d \in c..nCommits :
            IsBoundary(d) /\ \A e \in c..(d - 1) : ~IsBoundary(e)

TitleFits(t, c) ==
    LET release == ReleaseCommitOf(c)
    IN  IF release = 0
        THEN t = [identifier |-> config.unreleased_version_label, date |-> 0]
        ELSE /\ t.date = release
             /\ \E k \in DOMAIN TagNames :
                   /\ tagAt[k] = release
                   /\ TagFilterMatch(TagNames[k])
                   /\ t.identifier = TagNames[k]

Running == pc \in {"loop", "done"}

AccumulatedEntries == UNION { Range(sections[l]) : l \in DOMAIN sections }

EntryPositions == { k \in DOMAIN s : s[k].kind = "entry" }

TitlePositions == { k \in DOMAIN s : s[k].kind = "title" }

\* The position of the title of the block that position k of s belongs
\* to, 0 if no title precedes it.
BlockOf(k) ==
    CHOOSE j \in 0..k :
        /\ j = 0 \/ s[j].kind = "title"
        /\ \A m \in (j + 1)..k : s[m].kind # "title"

\* Commit c has an entry in the current accumulation.
Accumulated(c) ==
    \E l \in DOMAIN sections : \E m \in DOMAIN sections[l] :
        sections[l][m].commit = c

\* The commits processed so far, in the order of processing.
Processed == SubSeq(commits, 1, i - 1)

\* The indices of the section rules that apply to a subject.
MatchingRules(subject) ==
    { k \in DOMAIN config.section_regexps :
        \/ config.section_regexps[k][2] = None
        \/ \E j \in DOMAIN config.section_regexps[k][2] :
              re_search(config.section_regexps[k][2][j], subject) }

\* The label of the first rule that applies, None if no rule does.
FirstLabel(subject) ==
    IF MatchingRules(subject) = {} THEN None
    ELSE LET first == CHOOSE k \in MatchingRules(subject) :
                          \A j \in MatchingRules(subject) : k <= j
         IN  config.section_regexps[first][1]

\* The heading a label is rendered with.
HeadingOf(label) == IF label = None THEN "Other" ELSE label

EndsInCatchAll ==
    /\ config.section_regexps # << >>
    /\ config.section_regexps[Len(config.section_regexps)][2] = None

\* The commit of the loop iteration that a step performs.
Stepping == pc = "loop" /\ i <= Len(commits) /\ i' = i + 1

(***************************************************************************)
(* C1: every entry, accumulated or rendered, sits in the block titled by   *)
(* the release tag on its own commit or else on the nearest newer commit,  *)
(* or in the unreleased block if there is no such tag; and each processed, *)
(* not ignored commit of the current block has its entry accumulated.      *)
(***************************************************************************)
C1_GroupedByFollowingTag ==
    Running =>
        /\ \A c \in Commits : Accumulated(c) => TitleFits(title, c)
        /\ \A k \in EntryPositions :
              /\ BlockOf(k) # 0
              /\ TitleFits(s[BlockOf(k)].text, s[k].commit)
        /\ \A k \in 1..(i - 1) :
              (/\ ~Ignored(commits[k])
               /\ \A j \in (k + 1)..(i - 1) : ~IsBoundary(commits[j]))
              => Accumulated(commits[k])

\* A finished document with an entry in the unreleased block, the entry of
\* a tagged commit in its own block, and the entry of an untagged commit in
\* the block of a newer tag.
C1_Witness ==
    /\ pc = "done"
    /\ \E k \in EntryPositions : ReleaseCommitOf(s[k].commit) = 0
    /\ \E k \in EntryPositions : ReleaseCommitOf(s[k].commit) = s[k].commit
    /\ \E k \in EntryPositions : ReleaseCommitOf(s[k].commit) > s[k].commit

(***************************************************************************)
(* C2: with section rules ending in a catch-all, the finished document     *)
(* holds exactly one entry for every commit of the history from the        *)
(* earliest commit through the tip that is not ignored, and none for an    *)
(* ignored one.                                                            *)
(***************************************************************************)
C2_EveryCommitOnce ==
    (pc = "done" /\ EndsInCatchAll) =>
        \A c \in Ancestors(HEAD) :
            Cardinality({ k \in EntryPositions : s[k].commit = c })
                = IF Ignored(c) THEN 0 ELSE 1

(***************************************************************************)
(* C3: no accumulated or rendered entry comes from an ignored commit.      *)
(* As stated: and the iteration that processes an ignored commit leaves    *)
(* sections unchanged.  As amended: it leaves sections unchanged unless    *)
(* the commit is a release boundary, where sections is emptied.            *)
(***************************************************************************)
NoEntryOfIgnored ==
    /\ \A e \in AccumulatedEntries : ~Ignored(e.commit)
    /\ \A k \in EntryPositions : ~Ignored(s[k].commit)

\* C3 as stated: no entry of an ignored commit, and processing an ignored
\* commit never changes sections.
C3_Original ==
    /\ []NoEntryOfIgnored
    /\ [][(Stepping /\ Ignored(commits[i])) => sections' = sections]_vars

\* C3 as amended: no entry of an ignored commit, and processing an ignored
\* commit leaves sections as it was, or empty if the commit is a boundary.
C3_IgnoredAddsNothing ==
    /\ []NoEntryOfIgnored
    /\ [][(Stepping /\ Ignored(commits[i])) =>
             sections' = IF IsBoundary(commits[i]) THEN EmptySections
                         ELSE sections]_vars

\* An ignored release commit has been processed right after a commit that
\* left an entry, and an ignored ordinary commit after that.
C3_Witness ==
    /\ Running
    /\ i > 3
    /\ ~Ignored(commits[i - 3])
    /\ Ignored(commits[i - 2]) /\ IsBoundary(commits[i - 2])
    /\ Ignored(commits[i - 1]) /\ ~IsBoundary(commits[i - 1])

(***************************************************************************)
(* C4.  As stated: changelog() processes the commits oldest first.  As     *)
(* amended: the range query returns them oldest first and changelog()      *)
(* walks that list reversed, newest first, so of two commits the newer     *)
(* one is processed first and its entry precedes the older one's.          *)
(***************************************************************************)
\* C4 as stated: of two processed commits the older was processed first.
C4_Original ==
    Running =>
        \A j, k \in DOMAIN Processed : j < k => Processed[j] < Processed[k]

\* C4 as amended: the range query lists oldest first; the commits are
\* processed, and their entries filed and rendered, newest first.
C4_NewestFirst ==
    Running =>
        /\ LET listed == GitRepos_getitem(0, 0).list
           IN  \A j, k \in DOMAIN listed : j < k => listed[j] < listed[k]
        /\ \A j, k \in DOMAIN Processed : j < k => Processed[j] > Processed[k]
        /\ \A l \in DOMAIN sections : \A j, k \in DOMAIN sections[l] :
              j < k => sections[l][j].commit > sections[l][k].commit
        /\ \A j, k \in EntryPositions :
              (j < k /\ BlockOf(j) # BlockOf(k)) => s[j].commit > s[k].commit

\* Three commits processed, the first two with entries in the same section.
C4_Witness ==
    /\ pc = "done"
    /\ Len(Processed) >= 3
    /\ \E l \in DOMAIN sections : Len(sections[l]) >= 2
    /\ Cardinality({ BlockOf(k) : k \in EntryPositions }) >= 2

(***************************************************************************)
(* C5: in the finished document every accumulated entry is rendered, the   *)
(* headings of a block follow the declared order, and the entries of the   *)
(* commits that no rule matches come last in their block, under "Other".   *)
(***************************************************************************)
C5_NothingDroppedOtherLast ==
    pc = "done" =>
        /\ \A c \in Range(commits) :
              ~Ignored(c) => \E k \in EntryPositions : s[k].commit = c
        /\ \A j, k \in { m \in DOMAIN s : s[m].kind = "section" } :
              (j < k /\ BlockOf(j) = BlockOf(k)) =>
                  \E a, b \in DOMAIN config.section_regexps :
                      /\ a < b
                      /\ s[j].text = HeadingOf(config.section_regexps[a][1])
                      /\ s[k].text = HeadingOf(config.section_regexps[b][1])
        /\ \A k \in EntryPositions :
              MatchingRules(subjects[s[k].commit]) = {} =>
                  \A j \in DOMAIN s :
                      (j > k /\ BlockOf(j) = BlockOf(k)) =>
                          /\ s[j].kind = "entry"
                          /\ MatchingRules(subjects[s[j].commit]) = {}

(***************************************************************************)
(* C6.  As stated: after the final flush the title of the last block is in *)
(* the document even if the block holds no entry.  As amended: the final   *)
(* flush is always performed, but it emits the title of the last block     *)
(* only if something was accumulated under it.                             *)
(***************************************************************************)
LastTitleRendered == \E k \in TitlePositions : s[k].text = title

\* C6 as stated: once commits were processed and the document is finished,
\* the title of the last block is in it.
C6_Original == (pc = "done" /\ Len(commits) >= 1) => LastTitleRendered

\* C6 as amended: the finished document holds the title of the last block
\* exactly if the last block accumulated an entry.
C6_LastTitleIffAccumulated ==
    pc = "done" => (LastTitleRendered <=> AccumulatedEntries # {})

\* Commits were processed and the last block ended up empty.
C6_Witness ==
    /\ pc = "done"
    /\ Len(commits) >= 2
    /\ AccumulatedEntries = {}
    /\ TitlePositions # {}

(***************************************************************************)
(* C7: a range query with equal endpoints returns the empty list, and a    *)
(* range query whose newer endpoint is not a descendant of the older one   *)
(* raises.                                                                 *)
(***************************************************************************)
C7_RangeCorrect ==
    pc \in {"returned", "raised"} =>
        /\ query[1] = query[2] => (pc = "returned" /\ commits = << >>)
        /\ query[1] \notin Ancestors(query[2]) => pc = "raised"

(***************************************************************************)
(* C8: every entry is filed under the label of the first section rule that *)
(* applies to the original subject of its commit, None if no rule applies. *)
(***************************************************************************)
C8_FirstMatchOnOriginalSubject ==
    Running =>
        \A l \in DOMAIN sections : \A k \in DOMAIN sections[l] :
            l = FirstLabel(subjects[sections[l][k].commit])

\* Entries are accumulated for a commit to which two rules apply and for a
\* commit whose rewritten subject would be filed elsewhere.
C8_Witness ==
    /\ Running
    /\ \E e \in AccumulatedEntries :
          Cardinality(MatchingRules(subjects[e.commit])) >= 2
    /\ \E e \in AccumulatedEntries :
          FirstLabel(Replaced(config.replace_regexps, subjects[e.commit]))
              # FirstLabel(subjects[e.commit])

(***************************************************************************)
(* C9: every block title of the document is followed by an entry of its    *)
(* block.                                                                  *)
(***************************************************************************)
C9_NoEmptyBlock ==
    \A t \in TitlePositions : \E k \in EntryPositions : BlockOf(k) = t

(***************************************************************************)
(* C10: the iteration that processes a commit carrying a release tag       *)
(* flushes the accumulation once and opens the block of that tag, whether  *)
(* or not the commit is ignored; an ignored one adds no entry, and the     *)
(* iterations of the other commits keep the title and flush nothing.       *)
(***************************************************************************)
C10_BoundaryBeforeIgnore ==
    [][Stepping =>
         IF IsBoundary(commits[i])
         THEN /\ s' = s \o make_section_string(title, sections,
                                               SectionOrder(config.section_regexps))
              /\ title'.date = commits[i]
              /\ title'.identifier \in QualifyingTagsOn(commits[i])
              /\ { e.commit : e \in UNION { Range(sections'[l]) : l \in DOMAIN sections' } }
                    = IF Ignored(commits[i]) THEN {} ELSE {commits[i]}
         ELSE /\ s' = s
              /\ title' = title
              /\ DOMAIN sections \subseteq DOMAIN sections']_vars

\* An ignored commit with two release tags flushed a block that had an
\* entry, and the next commit is accumulated under its title.
C10_Witness ==
    /\ Running
    /\ i > 3
    /\ ~Ignored(commits[i - 3])
    /\ Ignored(commits[i - 2])
    /\ Cardinality(QualifyingTagsOn(commits[i - 2])) = 2
    /\ ~IsBoundary(commits[i - 1])
    /\ title.date = commits[i - 2]
    /\ \E e \in AccumulatedEntries : e.commit = commits[i - 1]
    /\ \E k \in EntryPositions : s[k].commit = commits[i - 3]

====
